---- MODULE Spec2Model ----
(***************************************************************************)
(* Model of src/main.py: class EmployeeDatabase, a CSV loader that cleans  *)
(* a batch of employee rows and upserts them, one call per row, into a     *)
(* search-engine collection, plus count / delete / create pass-throughs.   *)
(*                                                                         *)
(* Cells of the DataFrame are tagged records [k, v]:                       *)
(*   k = "str"  v = the characters of the text                             *)
(*   k = "num"  v = <<n>>          (a parsed number)                       *)
(*   k = "date" v = <<y, m, d>>    (a parsed timestamp)                    *)
(*   k = "nan"  v = <<>>           (empty CSV cell / float NaN)            *)
(*   k = "nat"  v = <<>>           (pandas NaT)                            *)
(* Numbers are non-negative integers written with decimal digits; the      *)
(* engine is a consistent key-value store per collection.                  *)
(***************************************************************************)
EXTENDS Integers, Sequences, FiniteSets, TLC

VARIABLES
    csv,        \* rows of employee_data.csv as read_csv returns them
    mappings,   \* existing collection -> its field mapping
    docs,       \* collection -> (document id -> document)
    pc,         \* "idle" (between calls), "indexing" (in the loop of index_data), "fatal" (uncaught exception)
    run,        \* the index_data call in progress or just finished (NoRun once another call is made)
    last        \* the most recent call and what it printed / returned

vars == <<csv, mappings, docs, pc, run, last>>

-----------------------------------------------------------------------------
(* Bounds *)

MaxRows == 2

-----------------------------------------------------------------------------
(* Cells *)

NaN == [k |-> "nan", v |-> <<>>]
NaT == [k |-> "nat", v |-> <<>>]
Str(s) == [k |-> "str", v |-> s]
Num(n) == [k |-> "num", v |-> <<n>>]
Date(y, m, d) == [k |-> "date", v |-> <<y, m, d>>]

\* faulty variant: only NaT counts as null
IsNullOnlyNaT(c) == c.k = "nat"

\* pd.isnull / DataFrame.isnull on one value
IsNull(c) == c.k \in {"nan", "nat"}

-----------------------------------------------------------------------------
(* Text helpers *)

Digits == {"0", "1", "2", "3", "4", "5", "6", "7", "8", "9"}

DigitValue(ch) ==
    CASE ch = "0" -> 0 [] ch = "1" -> 1 [] ch = "2" -> 2 [] ch = "3" -> 3
      [] ch = "4" -> 4 [] ch = "5" -> 5 [] ch = "6" -> 6 [] ch = "7" -> 7
      [] ch = "8" -> 8 [] ch = "9" -> 9

RECURSIVE DecimalValue(_)
DecimalValue(s) ==
    IF s = <<>> THEN 0
    ELSE 10 * DecimalValue(SubSeq(s, 1, Len(s) - 1)) + DigitValue(s[Len(s)])

\* regex replacement of every occurrence of the characters in chars by ''
RegexRemove(s, chars) == SelectSeq(s, LAMBDA ch : ch \notin chars)

\* float(text): defined on non-empty digit strings, a ValueError otherwise
IsFloatText(s) == s # <<>> /\ \A p \in 1..Len(s) : s[p] \in Digits

\* faulty variant of the conversion: the comma read as a decimal point
BeforeFirstComma(s) ==
    LET hits == {p \in 1..Len(s) : s[p] = ","}
    IN  IF hits = {} THEN s
        ELSE SubSeq(s, 1, (CHOOSE q \in hits : \A r \in hits : q <= r) - 1)

ToFloatCommaAsDecimalPoint(c, chars) ==
    IF c.k # "str" THEN [ok |-> TRUE, cell |-> c]
    ELSE LET t == RegexRemove(c.v, chars)
         IN  IF IsFloatText(t)
             THEN [ok |-> TRUE,
                   cell |-> Num(DecimalValue(BeforeFirstComma(RegexRemove(c.v, chars \ {","}))))]
             ELSE [ok |-> FALSE, cell |-> c]

\* faulty variant of the conversion: a malformed text becomes NaN instead of raising
CoerceToFloat(c, chars) ==
    IF c.k # "str" THEN [ok |-> TRUE, cell |-> c]
    ELSE LET t == RegexRemove(c.v, chars)
         IN  IF IsFloatText(t) THEN [ok |-> TRUE, cell |-> Num(DecimalValue(t))]
             ELSE [ok |-> TRUE, cell |-> NaN]

\* Series.replace(..., regex=True).astype(float) on one cell:
\* [ok |-> FALSE] stands for the ValueError astype raises
ToFloat(c, chars) ==
    IF c.k # "str" THEN [ok |-> TRUE, cell |-> c]
    ELSE LET t == RegexRemove(c.v, chars)
         IN  IF IsFloatText(t) THEN [ok |-> TRUE, cell |-> Num(DecimalValue(t))]
             ELSE [ok |-> FALSE, cell |-> c]

\* numerals that occur in date texts
NumeralValue(tok) ==
    CASE tok = "4" -> 4 [] tok = "8" -> 8 [] tok = "13" -> 13 [] tok = "31" -> 31
      [] tok = "2016" -> 2016 [] tok = "2021" -> 2021 [] OTHER -> 0

DaysInMonth(m) == IF m \in {4, 6, 9, 11} THEN 30 ELSE IF m = 2 THEN 28 ELSE 31

\* pd.to_datetime(..., errors='coerce') on one cell; texts are month/day/year
ToDatetime(c) ==
    IF c.k = "date" THEN c
    ELSE IF c.k # "str" THEN NaT
    ELSE IF Len(c.v) = 5 /\ c.v[2] = "/" /\ c.v[4] = "/"
            /\ NumeralValue(c.v[1]) \in 1..12
            /\ NumeralValue(c.v[3]) \in 1..DaysInMonth(NumeralValue(c.v[1]))
            /\ NumeralValue(c.v[5]) > 0
         THEN Date(NumeralValue(c.v[5]), NumeralValue(c.v[1]), NumeralValue(c.v[3]))
         ELSE NaT

\* characters matched by [^\w\s]
Punctuation == {".", ",", "$", "%", "/", "-"}

\* Series.str.replace(r'[^\w\s]', '', regex=True) on one cell
StripPunctuation(c) == IF c.k = "str" THEN Str(RegexRemove(c.v, Punctuation)) ELSE c

-----------------------------------------------------------------------------
(* The DataFrame *)

EmployeeID == "Employee ID"
AnnualSalary == "Annual Salary"
BonusPct == "Bonus %"
HireDate == "Hire Date"
ExitDate == "Exit Date"
FullName == "Full Name"
JobTitle == "Job Title"

\* the field schema create_collection sends
Mappings ==
    [properties |->
        (EmployeeID :> "keyword") @@ (FullName :> "text") @@ (JobTitle :> "text")
        @@ ("Department" :> "keyword") @@ ("Business Unit" :> "text")
        @@ ("Gender" :> "keyword") @@ ("Ethnicity" :> "keyword") @@ ("Age" :> "integer")
        @@ (HireDate :> "date") @@ (AnnualSalary :> "float") @@ (BonusPct :> "float")
        @@ ("Country" :> "text") @@ ("City" :> "text") @@ (ExitDate :> "date")]

Columns == DOMAIN Mappings.properties

\* df.drop(columns=[col])
DropColumn(df, col) ==
    [k \in 1..Len(df) |-> [c \in (DOMAIN df[k]) \ {col} |-> df[k][c]]]

\* faulty variant: no deduplication
KeepAll(df) == df

\* df.drop_duplicates(subset=['Employee ID']): the first row of each identifier stays
RECURSIVE DropDuplicates(_)
DropDuplicates(df) ==
    IF df = <<>> THEN <<>>
    ELSE LET n == Len(df)
             front == DropDuplicates(SubSeq(df, 1, n - 1))
         IN  IF \E k \in 1..(n - 1) : df[k][EmployeeID] = df[n][EmployeeID]
             THEN front
             ELSE Append(front, df[n])

\* one column converted cell by cell; ok is FALSE when any conversion raised
ColumnToFloat(df, col, chars) ==
    [ok |-> \A k \in 1..Len(df) : ToFloat(df[k][col], chars).ok,
     df |-> [k \in 1..Len(df) |-> [df[k] EXCEPT ![col] = ToFloat(df[k][col], chars).cell]]]

\* pd.to_datetime(df[col], errors='coerce')
ColumnToDatetime(df, col) ==
    [k \in 1..Len(df) |-> [df[k] EXCEPT ![col] = ToDatetime(df[k][col])]]

\* df[col].str.replace(r'[^\w\s]', '', regex=True)
ColumnStripPunctuation(df, col) ==
    [k \in 1..Len(df) |-> [df[k] EXCEPT ![col] = StripPunctuation(df[k][col])]]

\* clean_data(df): [ok |-> FALSE] when a numeric conversion raised
CleanData(df) ==
    LET s1 == ColumnToFloat(df, AnnualSalary, {"$", ","})
    IN  IF ~s1.ok THEN [ok |-> FALSE, df |-> <<>>]
        ELSE LET s2 == ColumnToFloat(s1.df, BonusPct, {"%"})
             IN  IF ~s2.ok THEN [ok |-> FALSE, df |-> <<>>]
                 ELSE LET s3 == ColumnToDatetime(s2.df, HireDate)
                          s4 == ColumnToDatetime(s3, ExitDate)
                          s5 == ColumnStripPunctuation(s4, FullName)
                          s6 == ColumnStripPunctuation(s5, JobTitle)
                      IN  [ok |-> TRUE, df |-> s6]

\* faulty variant: only the identifier column is validated
IsnullIdentifierOnly(df) ==
    \E k \in 1..Len(df) : IsNull(df[k][EmployeeID])

\* df.isnull().values.any()
IsnullValuesAny(df) ==
    \E k \in 1..Len(df) : \E c \in DOMAIN df[k] : IsNull(df[k][c])

-----------------------------------------------------------------------------
(* Sample contents of employee_data.csv *)

Text(id) == Str(<<id>>)

\* a row every cell of which is present and well formed; the columns the code
\* never names (Business Unit, Ethnicity, Country, City) are left out, Age
\* standing for them
BaseRow(id) ==
    (EmployeeID :> id) @@ (FullName :> Str(<<"A", ".", "B">>))
    @@ (JobTitle :> Str(<<"S", "r", ".">>)) @@ ("Department" :> Text("IT"))
    @@ ("Gender" :> Text("Male")) @@ ("Age" :> Num(30))
    @@ (HireDate :> Str(<<"4", "/", "8", "/", "2016">>))
    @@ (AnnualSalary :> Str(<<"$", "5", "0", ",", "0", "0", "0">>))
    @@ (BonusPct :> Str(<<"1", "0", "%">>))
    @@ (ExitDate :> Str(<<"8", "/", "31", "/", "2021">>))

With(row, col, cell) == [row EXCEPT ![col] = cell]

E1 == Text("E1")
E2 == Text("E2")

Rows ==
    {
      BaseRow(E1),
      With(BaseRow(E1), AnnualSalary, NaN),
      With(BaseRow(E1), AnnualSalary, Str(<<"1", "2", "k">>)),
      With(BaseRow(E1), BonusPct, Str(<<"$", "5">>)),
      With(BaseRow(E1), ExitDate, NaN),
      With(BaseRow(E1), "Department", NaN),
      With(BaseRow(E1), FullName, NaN),
      BaseRow(E2),
      With(BaseRow(E2), HireDate, Str(<<"13", "/", "8", "/", "2016">>)),
      BaseRow(NaN)
    }

Batches == UNION {[1..n -> Rows] : n \in 0..MaxRows}

Collections == {"hash_nikhil", "hash_6789"}
\* the column the entry point excludes when it loads each collection
ExcludeColumn == ("hash_nikhil" :> "Department") @@ ("hash_6789" :> "Gender")
EmployeeIds == {"E1", "E2"}

-----------------------------------------------------------------------------
(* The engine behind self.es *)

indices == DOMAIN mappings

\* es.indices.exists(index=c)
IndicesExists(c) == c \in indices

\* es.count(index=c)['count']
EsCount(c) == Cardinality(DOMAIN docs[c])

\* the documents of a collection after es.index(index=c, id=id, document=doc)
Put(f, id, doc) == [x \in (DOMAIN f) \cup {id} |-> IF x = id THEN doc ELSE f[x]]

\* faulty variant: the delete empties the collection
RemoveAll(f, id) == <<>>

\* the documents of a collection after es.delete(index=c, id=id)
Remove(f, id) == [x \in (DOMAIN f) \ {id} |-> f[x]]

\* the id es.index receives for an identifier cell
DocId(cell) == IF cell.k = "str" THEN cell.v[1] ELSE "nan"

\* mapping the engine derives when a document creates the collection
DynamicMappings(doc) == [properties |-> [c \in DOMAIN doc |-> "dynamic"]]

NoCall == [op |-> "none", coll |-> "", id |-> "", out |-> "", ret |-> -1, req |-> FALSE]
NoRun == [status |-> "none", coll |-> "", excl |-> "", df |-> <<>>, i |-> 0,
          calls |-> <<>>, snap |-> <<>>]

-----------------------------------------------------------------------------
(* State after __init__: a process between calls. The engine outlives the     *)
(* process: it is either fresh, or holds what an earlier execution of the     *)
(* entry point loaded from a file of two well-formed rows.                    *)

EarlierLoad(c) ==
    LET df == CleanData(DropDuplicates(DropColumn(<<BaseRow(E1), BaseRow(E2)>>,
                                                  ExcludeColumn[c]))).df
    IN  Put(Put(<<>>, "E1", df[1]), "E2", df[2])

Init ==
    /\ csv \in Batches
    /\ \/ /\ mappings = <<>>
          /\ docs = [c \in Collections |-> <<>>]
       \/ /\ mappings = [c \in Collections |-> Mappings]
          /\ docs = [c \in Collections |-> EarlierLoad(c)]
    /\ pc = "idle"
    /\ run = NoRun
    /\ last = NoCall

-----------------------------------------------------------------------------
(* Operations *)

\* faulty variant: the collection is created without the existence test
CreateCollectionNoCheck(c) ==
    /\ pc = "idle"
    /\ mappings' = [x \in indices \cup {c} |-> IF x = c THEN Mappings ELSE mappings[x]]
    /\ docs' = [docs EXCEPT ![c] = <<>>]
    /\ last' = [NoCall EXCEPT !.op = "create_collection", !.coll = c,
                              !.out = "created", !.req = TRUE]
    /\ run' = NoRun
    /\ UNCHANGED <<csv, pc>>

\* create_collection(c)
CreateCollection(c) ==
    /\ pc = "idle"
    /\ IF ~IndicesExists(c)
       THEN /\ mappings' = [x \in indices \cup {c} |-> IF x = c THEN Mappings ELSE mappings[x]]
            /\ last' = [NoCall EXCEPT !.op = "create_collection", !.coll = c,
                                      !.out = "created", !.req = TRUE]
       ELSE /\ mappings' = mappings
            /\ last' = [NoCall EXCEPT !.op = "create_collection", !.coll = c]
    /\ run' = NoRun
    /\ UNCHANGED <<csv, docs, pc>>

\* index_data(c, excl) up to the loop: read, drop, deduplicate, clean, validate
IndexDataBegin(c, excl) ==
    /\ pc = "idle"
    /\ \E cleaned \in {CleanData(DropDuplicates(DropColumn(csv, excl)))} :
         LET r == [NoRun EXCEPT !.coll = c, !.excl = excl, !.snap = docs[c]]
             call == [NoCall EXCEPT !.op = "index_data", !.coll = c]
         IN  IF ~cleaned.ok
             THEN /\ pc' = "fatal"
                  /\ run' = [r EXCEPT !.status = "raised"]
                  /\ last' = [call EXCEPT !.out = "ValueError"]
             ELSE IF IsnullValuesAny(cleaned.df)
             THEN /\ pc' = "idle"
                  /\ run' = [r EXCEPT !.status = "rejected", !.df = cleaned.df]
                  /\ last' = [call EXCEPT !.out = "contains null values"]
             ELSE /\ pc' = "indexing"
                  /\ run' = [r EXCEPT !.status = "indexing", !.df = cleaned.df, !.i = 1]
                  /\ last' = call
    /\ UNCHANGED <<csv, mappings, docs>>

\* one iteration of the loop of index_data
IndexDataRow ==
    /\ pc = "indexing"
    /\ run.i <= Len(run.df)
    /\ LET document == run.df[run.i]
           employee_id == document[EmployeeID]
           c == run.coll
       IN  IF IsNull(employee_id)
           THEN /\ run' = [run EXCEPT !.i = @ + 1]
                /\ UNCHANGED <<mappings, docs>>
           ELSE /\ docs' = [docs EXCEPT ![c] = Put(@, DocId(employee_id), document)]
                /\ mappings' = IF IndicesExists(c) THEN mappings
                               ELSE [x \in indices \cup {c} |->
                                        IF x = c THEN DynamicMappings(document)
                                        ELSE mappings[x]]
                /\ run' = [run EXCEPT !.i = @ + 1, !.calls = Append(@, employee_id)]
    /\ UNCHANGED <<csv, pc, last>>

\* the loop of index_data is exhausted: the call returns
IndexDataReturn ==
    /\ pc = "indexing"
    /\ run.i > Len(run.df)
    /\ pc' = "idle"
    /\ run' = [run EXCEPT !.status = "done"]
    /\ last' = [last EXCEPT !.out = "indexed"]
    /\ UNCHANGED <<csv, mappings, docs>>

\* get_emp_count(c); a missing collection raises NotFoundError, which nothing catches
GetEmpCount(c) ==
    /\ pc = "idle"
    /\ IF IndicesExists(c)
       THEN /\ pc' = "idle"
            /\ last' = [NoCall EXCEPT !.op = "get_emp_count", !.coll = c, !.ret = EsCount(c)]
       ELSE /\ pc' = "fatal"
            /\ last' = [NoCall EXCEPT !.op = "get_emp_count", !.coll = c,
                                      !.out = "NotFoundError"]
    /\ run' = NoRun
    /\ UNCHANGED <<csv, mappings, docs>>

\* faulty variant: NotFoundError is not caught
DelEmpByIdNoExcept(c, id) ==
    /\ pc = "idle"
    /\ IF IndicesExists(c) /\ id \in DOMAIN docs[c]
       THEN /\ docs' = [docs EXCEPT ![c] = Remove(@, id)]
            /\ pc' = "idle"
            /\ last' = [NoCall EXCEPT !.op = "del_emp_by_id", !.coll = c, !.id = id,
                                      !.out = "Deleted", !.req = TRUE]
       ELSE /\ docs' = docs
            /\ pc' = "fatal"
            /\ last' = [NoCall EXCEPT !.op = "del_emp_by_id", !.coll = c, !.id = id,
                                      !.out = "NotFoundError", !.req = TRUE]
    /\ run' = NoRun
    /\ UNCHANGED <<csv, mappings>>

\* del_emp_by_id(c, id)
DelEmpById(c, id) ==
    /\ pc = "idle"
    /\ IF IndicesExists(c) /\ id \in DOMAIN docs[c]
       THEN /\ docs' = [docs EXCEPT ![c] = Remove(@, id)]
            /\ last' = [NoCall EXCEPT !.op = "del_emp_by_id", !.coll = c, !.id = id,
                                      !.out = "Deleted", !.req = TRUE]
       ELSE /\ docs' = docs
            /\ last' = [NoCall EXCEPT !.op = "del_emp_by_id", !.coll = c, !.id = id,
                                      !.out = "not found", !.req = TRUE]
    /\ run' = NoRun
    /\ UNCHANGED <<csv, mappings, pc>>

Next ==
    \/ \E c \in Collections : CreateCollection(c)
    \/ \E c \in Collections : IndexDataBegin(c, ExcludeColumn[c])
    \/ IndexDataRow
    \/ IndexDataReturn
    \/ \E c \in Collections : GetEmpCount(c)
    \/ \E c \in Collections, id \in EmployeeIds : DelEmpById(c, id)

Spec == Init /\ [][Next]_vars

-----------------------------------------------------------------------------
(* Vocabulary of the properties *)

\* index_data got past clean_data: run.df is the cleaned batch
Cleaned == run.status \in {"rejected", "indexing", "done"}

\* index_data returned to its caller without raising
Returned == run.status \in {"rejected", "done"}

\* the rows clean_data receives in the current call
Survivors == DropDuplicates(DropColumn(csv, run.excl))

Missing(cell) == cell.k = "nan" \/ cell.k = "nat"

RowHasMissing(row) == \E col \in DOMAIN row : Missing(row[col])

SomeCellMissing(df) == \E k \in 1..Len(df) : RowHasMissing(df[k])

-----------------------------------------------------------------------------
(* C1: when any field of any row of the cleaned, deduplicated batch (excluded *)
(* column dropped) is null, the call makes no upsert at all and the           *)
(* collection holds exactly the documents it held when the call began.        *)
C1_NullBatchRejected ==
    (Cleaned /\ SomeCellMissing(run.df)) =>
        /\ run.calls = <<>>
        /\ docs[run.coll] = run.snap
        /\ run.status = "rejected"

\* a call returned having rejected a batch with a null field in a row whose
\* identifier is present, on a collection that holds documents
C1_Witness ==
    /\ run.status = "rejected"
    /\ \E k \in 1..Len(run.df) :
          ~Missing(run.df[k][EmployeeID]) /\ RowHasMissing(run.df[k])
    /\ run.snap # <<>>
    /\ docs[run.coll] = run.snap

-----------------------------------------------------------------------------
(* C4: no upsert call is ever made with a null Employee ID: every identifier  *)
(* passed to es.index is a text, and every stored document carries the text   *)
(* identifier it is stored under.                                             *)
C4_NoNullIdentifierUpserted ==
    /\ \A k \in 1..Len(run.calls) : run.calls[k].k = "str"
    /\ \A c \in Collections : \A id \in DOMAIN docs[c] :
          docs[c][id][EmployeeID] = Text(id)

\* a call on a file with a null-identifier row has returned
C4_Witness ==
    /\ Returned
    /\ \E k \in 1..Len(csv) : Missing(csv[k][EmployeeID])
    /\ \E k \in 1..Len(csv) : ~RowHasMissing(csv[k])

-----------------------------------------------------------------------------
(* C5: of the rows of the file that share an Employee ID exactly one is in    *)
(* the cleaned batch, so identifiers are pairwise distinct in the batch and   *)
(* each identifier is upserted at most once per call.                         *)
C5_Deduplicated ==
    /\ Cleaned =>
          /\ \A k \in 1..Len(csv) :
                Cardinality({j \in 1..Len(run.df) :
                                run.df[j][EmployeeID] = csv[k][EmployeeID]}) = 1
          /\ \A j \in 1..Len(run.df) :
                \E k \in 1..Len(csv) : csv[k][EmployeeID] = run.df[j][EmployeeID]
    /\ \A a, b \in 1..Len(run.calls) : run.calls[a] = run.calls[b] => a = b

\* a call upserted from a file where two rows share an identifier
C5_Witness ==
    /\ run.status = "done"
    /\ Len(run.calls) = 1
    /\ \E a, b \in 1..Len(csv) : a # b /\ csv[a][EmployeeID] = csv[b][EmployeeID]

-----------------------------------------------------------------------------
\* the cleaned row k was passed to es.index and is what the collection holds
Upserted(k) ==
    /\ \E j \in 1..Len(run.calls) : run.calls[j] = run.df[k][EmployeeID]
    /\ run.df[k][EmployeeID].k = "str"
    /\ run.df[k][EmployeeID].v[1] \in DOMAIN docs[run.coll]
    /\ docs[run.coll][run.df[k][EmployeeID].v[1]] = run.df[k]

(* C2: a row whose Employee ID is null is skipped on its own and does not     *)
(* fail the batch: when the call has returned, every row of the batch with    *)
(* an identifier and no null field has been upserted.                         *)
C2_NullIdentifierRowSkipped ==
    (Returned /\ \E k \in 1..Len(run.df) : Missing(run.df[k][EmployeeID])) =>
        \A k \in 1..Len(run.df) : ~RowHasMissing(run.df[k]) => Upserted(k)

-----------------------------------------------------------------------------
UnsetDate(row) == row[HireDate].k = "nat" \/ row[ExitDate].k = "nat"

OnlyDatesMissing(row) ==
    \A col \in DOMAIN row : Missing(row[col]) => col \in {HireDate, ExitDate}

(* C3: an unparsable Hire Date or Exit Date (an empty Exit Date included)     *)
(* becomes unset and does not fail the batch: when the call has returned,     *)
(* the row is upserted with the date unset, and so are the other rows.        *)
C3_UnparsableDateIsUnset ==
    (Returned /\ \E k \in 1..Len(run.df) : UnsetDate(run.df[k])) =>
        \A k \in 1..Len(run.df) :
            (~Missing(run.df[k][EmployeeID]) /\ OnlyDatesMissing(run.df[k])) => Upserted(k)

-----------------------------------------------------------------------------
\* a text that is not a number once the given formatting symbols are taken out
NotANumber(cell, symbols) ==
    /\ cell.k = "str"
    /\ \/ \E p \in 1..Len(cell.v) : cell.v[p] \notin (Digits \cup symbols)
       \/ \A p \in 1..Len(cell.v) : cell.v[p] \in symbols

MalformedNumeric(row) ==
    \/ NotANumber(row[AnnualSalary], {"$", ","})
    \/ NotANumber(row[BonusPct], {"%"})

Aborted ==
    /\ run.status = "raised"
    /\ pc = "fatal"
    /\ run.calls = <<>>
    /\ docs[run.coll] = run.snap

(* C9 as stated: a malformed Annual Salary or Bonus % in any row of the file  *)
(* aborts the call before any upsert.                                         *)
C9_AnyRowMalformedAborts ==
    (run.status # "none" /\ \E k \in 1..Len(csv) : MalformedNumeric(csv[k])) => Aborted

(* C9, amended: a malformed Annual Salary or Bonus % in any row that survives *)
(* deduplication aborts the call with an uncaught error before any upsert:    *)
(* no row is upserted and the collection is unchanged.                        *)
C9_SurvivorMalformedAborts ==
    (run.status # "none" /\ \E k \in 1..Len(Survivors) : MalformedNumeric(Survivors[k]))
        => Aborted

\* a call aborted on a two-row batch, on a collection that holds documents
C9_Witness ==
    /\ Aborted
    /\ Len(Survivors) = 2
    /\ \E k \in 1..2 : ~MalformedNumeric(Survivors[k])
    /\ run.snap # <<>>

-----------------------------------------------------------------------------
FormattingSymbols == {"$", ",", "%"}

\* the number a text denotes once every formatting symbol is taken out
RECURSIVE PlainValue(_)
PlainValue(s) ==
    IF s = <<>> THEN 0
    ELSE LET front == SubSeq(s, 1, Len(s) - 1)
         IN  IF s[Len(s)] \in FormattingSymbols THEN PlainValue(front)
             ELSE 10 * PlainValue(front) + DigitValue(s[Len(s)])

NumericColumns == {AnnualSalary, BonusPct}

ExampleSalary == Str(<<"$", "5", "0", ",", "0", "0", "0">>)
ExampleBonus == Str(<<"1", "0", "%">>)

(* C10 as stated: after clean_data, Annual Salary and Bonus % of every row    *)
(* are numbers, equal to the input with the formatting symbols removed.       *)
C10_AlwaysNumeric ==
    Cleaned =>
        \A k \in 1..Len(run.df) : \A col \in NumericColumns :
            /\ run.df[k][col].k = "num"
            /\ Survivors[k][col].k = "str" =>
                  run.df[k][col].v = <<PlainValue(Survivors[k][col].v)>>

(* C10, amended: after clean_data, Annual Salary and Bonus % of every row     *)
(* whose input cell is present are numbers, free of currency symbol,          *)
(* thousands separator and percent sign, equal to the input with those        *)
(* symbols removed; an empty input cell stays null. "$50,000" cleans to       *)
(* 50000 and "10%" to 10, and a batch of such rows is cleaned without error.  *)
C10_PresentCellsNumeric ==
    /\ Cleaned =>
          /\ Len(run.df) = Len(Survivors)
          /\ \A k \in 1..Len(run.df) : \A col \in NumericColumns :
                IF Survivors[k][col].k = "str"
                THEN /\ run.df[k][col].k = "num"
                     /\ run.df[k][col].v = <<PlainValue(Survivors[k][col].v)>>
                ELSE run.df[k][col] = Survivors[k][col]
          /\ \A k \in 1..Len(run.df) :
                /\ Survivors[k][AnnualSalary] = ExampleSalary =>
                      run.df[k][AnnualSalary] = Num(50000)
                /\ Survivors[k][BonusPct] = ExampleBonus => run.df[k][BonusPct] = Num(10)
    /\ (/\ run.status # "none"
        /\ \A k \in 1..Len(Survivors) :
              /\ Survivors[k][AnnualSalary] = ExampleSalary
              /\ Survivors[k][BonusPct] = ExampleBonus)
       => Cleaned

\* a call cleaned the example row and upserted it
C10_Witness ==
    /\ run.status = "done"
    /\ Len(run.calls) = 2
    /\ \A k \in 1..Len(run.df) :
          /\ Survivors[k][AnnualSalary] = ExampleSalary
          /\ run.df[k][AnnualSalary] = Num(50000)
          /\ run.df[k][BonusPct] = Num(10)

-----------------------------------------------------------------------------
\* the step is a call of del_emp_by_id(c, id)
DeleteStep(c, id) ==
    /\ pc = "idle"
    /\ last'.op = "del_emp_by_id"
    /\ last'.coll = c
    /\ last'.id = id

Present(c, id) == c \in DOMAIN mappings /\ id \in DOMAIN docs[c]

-----------------------------------------------------------------------------
(* C7: del_emp_by_id on an identifier that is not in the collection reports   *)
(* "not found", which a successful delete never reports, raises nothing,      *)
(* changes nothing in the engine and leaves the caller running: the process   *)
(* stays between calls.                                                       *)
C7_DeleteMissingIsNotFatal ==
    [][\A c \in Collections, id \in EmployeeIds :
          DeleteStep(c, id) =>
              IF Present(c, id)
              THEN last'.out = "Deleted"
              ELSE /\ last'.out = "not found"
                   /\ pc' = "idle"
                   /\ docs' = docs
                   /\ mappings' = mappings]_vars

\* a delete of an absent identifier was reported and the caller is between calls
C7_Witness ==
    /\ last.op = "del_emp_by_id"
    /\ last.out = "not found"
    /\ pc = "idle"
    /\ docs[last.coll] # <<>>

-----------------------------------------------------------------------------
\* the step is a call of create_collection(c)
CreateStep(c) ==
    /\ pc = "idle"
    /\ last'.op = "create_collection"
    /\ last'.coll = c

SchemaFields ==
    {"Employee ID", "Full Name", "Job Title", "Department", "Business Unit", "Gender",
     "Ethnicity", "Age", "Hire Date", "Annual Salary", "Bonus %", "Country", "City",
     "Exit Date"}

FixedSchema(m) ==
    /\ DOMAIN m.properties = SchemaFields
    /\ m.properties["Employee ID"] = "keyword"
    /\ m.properties["Age"] = "integer"
    /\ m.properties["Hire Date"] = "date" /\ m.properties["Exit Date"] = "date"
    /\ m.properties["Annual Salary"] = "float" /\ m.properties["Bonus %"] = "float"

(* C8: create_collection on an existing collection issues no create request   *)
(* and changes neither its schema nor its documents; on a missing one it      *)
(* creates the collection, empty, with the fixed field schema; other          *)
(* collections are untouched, and a second call right after the first         *)
(* changes nothing.                                                           *)
C8_CreateIdempotent ==
    [][\A c \in Collections :
          CreateStep(c) =>
              /\ pc' = "idle"
              /\ docs' = docs
              /\ \A d \in (DOMAIN mappings) \ {c} :
                    d \in DOMAIN mappings' /\ mappings'[d] = mappings[d]
              /\ DOMAIN mappings' = (DOMAIN mappings) \cup {c}
              /\ IF c \in DOMAIN mappings
                 THEN ~last'.req /\ mappings' = mappings
                 ELSE last'.req /\ FixedSchema(mappings'[c]) /\ docs'[c] = <<>>
              /\ (last.op = "create_collection" /\ last.coll = c) =>
                    (mappings' = mappings /\ docs' = docs)]_vars

\* create_collection was a no-op on a collection that holds documents under
\* a schema the engine derived
C8_Witness ==
    /\ last.op = "create_collection"
    /\ ~last.req
    /\ docs[last.coll] # <<>>
    /\ ~FixedSchema(mappings[last.coll])

====
